---- MODULE Spec2Model ----
(***************************************************************************)
(* The notebooks of ScienceBetter/notebooks-stsci as a state machine.      *)
(*                                                                         *)
(* The repository is a set of independent notebooks.  Variable nb names    *)
(* the notebook fragment that is being run; Init chooses one fragment and  *)
(* its inputs (the data an archive returned, the arguments of a function), *)
(* and the actions are the cells or function calls of that fragment.  The  *)
(* variables of the fragments that are not running stay at <<>>.           *)
(***************************************************************************)
EXTENDS Integers, Sequences, FiniteSets, TLC

VARIABLES
    nb,             \* the notebook fragment being run
    pc,             \* position inside the fragment
    i,              \* index of the for loop that is running
    spectrum,       \* changeNaN: the four arrays handed to changeNaN
    changed,        \* changeNaN: the four arrays it returns
    fm,             \* FMpar: the arguments x, C1, C2, C3, C4, xo, gamma
    k,              \* FMpar: the array it returns
    im,             \* getImCoord: its arguments
    ImCoord,        \* getImCoord: the pair ImCoord_RA, ImCoord_Dec it returns
    catalogs,       \* eclipse candidates: Table 4a as VizieR returns it
    tbl,            \* eclipse candidates: the table of candidates
    mast,           \* eclipse candidates: what MAST holds at each row's coordinate
    TASOC,          \* eclipse candidates: column tbl['TASOC']
    QLP,            \* eclipse candidates: column tbl['QLP']
    images_mbm15,   \* mosaic: the central image images_mbm15[0]
    new_image,      \* mosaic: the expanded image
    tab,            \* Leo I: the PS1 catalogue rows
    ind,            \* Leo I: the rows selected as outer stars
    array,          \* saveArray: the array to save
    content,        \* saveArray: what np.loadtxt reads back
    out,            \* saveArray: what it has printed
    disk,           \* UV extinction curves: the files of the working directory
    loaded,         \* UV extinction curves: the files Part 2 has loaded
    header,         \* GALEX mosaic: the FITS header of the central image
    limits_mbm15,   \* GALEX mosaic: RA1_mbm15[0], RAf_mbm15[0], Dec1_mbm15[0], Decf_mbm15[0]
    limits,         \* GALEX mosaic: RA1, RAf, Dec1, Decf
    sky,            \* UV Part 1 cells: the flux arrays of the four FITS files
    flux,           \* UV Part 1 cells: the flux arrays the notebook holds
    applied,        \* UV Part 1 cells: the flux arrays changeNaN has been applied to
    logs,           \* UV Part 1 cells: the logarithms evaluated so far
    dir,            \* session: the files of the shared working directory
    opened,         \* session: the local files opened so far, with reader and writer
    ran,            \* session: the notebooks that have been run
    files,          \* gunzip loop: what the download left of each file
    child,          \* gunzip loop: the gunzip process that os.system started
    hdus            \* gunzip loop: the indices of the files fits.open has read

cnVars  == <<spectrum, changed>>
fmVars  == <<fm, k>>
imVars  == <<im, ImCoord>>
ecVars  == <<catalogs, tbl, mast, TASOC, QLP>>
mosVars == <<images_mbm15, new_image>>
leoVars == <<tab, ind>>
saVars  == <<array, content, out>>
uvVars  == <<disk, loaded>>
limVars == <<header, limits_mbm15, limits>>
cellVars == <<sky, flux, applied, logs>>
sessVars == <<dir, opened, ran>>
gzVars  == <<files, child, hdus>>

vars == <<nb, pc, i, cnVars, fmVars, imVars, ecVars, mosVars, leoVars, saVars, uvVars, limVars, cellVars, sessVars, gzVars>>

\* the variables of the fragments that are not running
IdleChangeNaN == spectrum = <<>> /\ changed = <<>>

IdleFMpar == fm = <<>> /\ k = <<>>

IdleGetImCoord == im = <<>> /\ ImCoord = <<>>

IdleEclipse ==
    /\ catalogs = <<>> /\ tbl = <<>> /\ mast = <<>>
    /\ TASOC = <<>> /\ QLP = <<>>

IdleMosaic == images_mbm15 = <<>> /\ new_image = <<>>

IdleLeo == tab = <<>> /\ ind = <<>>

IdleSaveArray == array = <<>> /\ content = <<>> /\ out = <<>>

IdleUV == disk = {} /\ loaded = <<>>

IdleLimits == header = <<>> /\ limits_mbm15 = <<>> /\ limits = <<>>

IdleCells == sky = <<>> /\ flux = <<>> /\ applied = {} /\ logs = <<>>

IdleSession == dir = {} /\ opened = {} /\ ran = {}

IdleGunzip == files = <<>> /\ child = <<>> /\ hdus = <<>>

(***************************************************************************)
(* Floating point values.  A float is an integer number of some unit that  *)
(* each fragment names, or NaN.  Comparisons with NaN are False, as in     *)
(* IEEE 754 and numpy.                                                     *)
(***************************************************************************)
NaN == 1000000

FLt(a, b) == a # NaN /\ b # NaN /\ a < b

(***************************************************************************)
(* UV extinction curves, Part 1: changeNaN                                 *)
(***************************************************************************)
MaxLen == 3

FluxVals == {-1, 0, 1, NaN}

\* wavelength grid of a spectrum with n rows: distinct values, so that a row
\* is recognised by its wavelength
WavGrid(base, n) == [j \in 1..n |-> base + j]

\* np.where(fluxx <= 0)[0]: the faulty selection that also takes zero flux
WhereLe(f) == {j \in DOMAIN f : f[j] # NaN /\ f[j] <= 0}

\* np.where(fluxx < 0)[0]: the indices whose value is negative
Where(f) == {j \in DOMAIN f : FLt(f[j], 0)}

\* np.delete(arr, obj): arr without the elements at the indices in obj
Delete(arr, obj) ==
    LET D[n \in 0..Len(arr)] ==
            IF n = 0 THEN <<>>
            ELSE IF n \in obj THEN D[n - 1] ELSE Append(D[n - 1], arr[n])
    IN  D[Len(arr)]

changeNaN(wavv, fluxx, wavv1, fluxx1) ==
    LET prob   == Where(fluxx)
        wavvA  == Delete(wavv, prob)
        fluxxA == Delete(fluxx, prob)
        wavv1A == Delete(wavv1, prob)
        fluxx1A == Delete(fluxx1, prob)
        prob2  == Where(fluxx1A)
    IN  << Delete(wavvA, prob2), Delete(fluxxA, prob2),
           Delete(wavv1A, prob2), Delete(fluxx1A, prob2) >>


InitChangeNaN ==
    /\ nb = "changeNaN"
    /\ pc = "call"
    /\ i = 0
    /\ \E n \in 0..MaxLen :
         \E f \in [1..n -> FluxVals], f1 \in [1..n -> FluxVals] :
            spectrum = << WavGrid(1150, n), f, WavGrid(1850, n), f1 >>
    /\ changed = <<>>
    /\ IdleFMpar /\ IdleGetImCoord /\ IdleEclipse /\ IdleMosaic
    /\ IdleLeo /\ IdleSaveArray /\ IdleUV /\ IdleLimits /\ IdleCells
    /\ IdleSession /\ IdleGunzip

\* wav, flux, wav1, flux1 = changeNaN(wav, flux, wav1, flux1)
CallChangeNaN ==
    /\ nb = "changeNaN"
    /\ pc = "call"
    /\ changed' = changeNaN(spectrum[1], spectrum[2], spectrum[3], spectrum[4])
    /\ pc' = "done"
    /\ UNCHANGED <<nb, i, spectrum>>
    /\ UNCHANGED <<fmVars, imVars, ecVars, mosVars, leoVars, saVars, uvVars, limVars, cellVars, sessVars, gzVars>>

(***************************************************************************)
(* Exact rational numbers <<n, d>> with d > 0, in lowest terms             *)
(***************************************************************************)
Abs(n) == IF n < 0 THEN -n ELSE n

RECURSIVE GCD(_, _)
GCD(a, b) == IF b = 0 THEN a ELSE GCD(b, a % b)

Rat(n, d) ==
    LET g == GCD(Abs(n), Abs(d))
        s == IF d < 0 THEN -1 ELSE 1
    IN  << (s * n) \div g, (s * d) \div g >>

RInt(n) == <<n, 1>>

RAdd(p, q) == Rat(p[1] * q[2] + q[1] * p[2], p[2] * q[2])

RSub(p, q) == Rat(p[1] * q[2] - q[1] * p[2], p[2] * q[2])

RMul(p, q) == Rat(p[1] * q[1], p[2] * q[2])

RDiv(p, q) == Rat(p[1] * q[2], p[2] * q[1])

(***************************************************************************)
(* UV extinction curves, Part 2: FMpar                                     *)
(*                                                                         *)
(* x, xo and gamma are counted in tenths (59 is 5.9), C1..C4 are whole     *)
(* numbers.  An element of k is kept exactly, as its two summands:         *)
(*   poly  = C1 + C2*x + C4*F, a whole number of 10^-8                     *)
(*   drude = C3*D, a rational number                                       *)
(* (their common denominator does not fit a TLC integer).                  *)
(***************************************************************************)
MaxX == 2

XVals == {50, 59, 60, 70}

CVals == {0, 1}

\* xo = 4.6 and gamma = 1.0 of the FMpar with four fitted parameters
xo4 == 46

gamma4 == 10

\* 0.5392*(x-5.9)**2 + 0.05644*(x-5.9)**3 for one element, in 10^-8:
\* 0.5392/10^2 = 539200e-8 and 0.05644/10^3 = 5644e-8
FarUV(a) == 539200 * (a - 59) * (a - 59) + 5644 * (a - 59) * (a - 59) * (a - 59)

\* F = np.zeros(len(x)); for i in range(len(x)): if x[i] >= 5.9: F = <formula of x>
\* the assignment in the loop replaces the whole array F
FLoop(x) ==
    LET L[n \in 0..Len(x)] ==
            IF n = 0 THEN [j \in 1..Len(x) |-> 0]
            ELSE IF x[n] >= 59 THEN [j \in 1..Len(x) |-> FarUV(x[j])]
            ELSE L[n - 1]
    IN  L[Len(x)]

\* D = x**2/((x**2-xo**2)**2+x**2*gamma**2) for one element; with x = a/10,
\* xo = o/10, gamma = g/10 this is 100*a^2 / ((a^2-o^2)^2 + a^2*g^2)
Drude(a, o, g) ==
    Rat(100 * a * a, (a * a - o * o) * (a * a - o * o) + a * a * g * g)

\* k = C1 + C2*x + C3*D + C4*F
KSum(x, C1, C2, C3, C4, D, F) ==
    [j \in 1..Len(x) |->
        [poly  |-> C1 * 100000000 + C2 * x[j] * 10000000 + C4 * F[j],
         drude |-> RMul(RInt(C3), D[j])]]

\* FMpar(x, C1, C2, C3, C4, xo, gamma) of the solution
FMpar6(x, C1, C2, C3, C4, xo, gamma) ==
    LET F == FLoop(x)
        D == [j \in 1..Len(x) |-> Drude(x[j], xo, gamma)]
    IN  KSum(x, C1, C2, C3, C4, D, F)

\* a tutorial FMpar whose fixed gamma is not 1.0
FMpar4OtherGamma(x, C1, C2, C3, C4) == FMpar6(x, C1, C2, C3, C4, 46, 12)

\* FMpar(x, C1, C2, C3, C4) of the tutorial
FMpar4(x, C1, C2, C3, C4) ==
    LET xo == xo4
        gamma == gamma4
        F == FLoop(x)
        D == [j \in 1..Len(x) |-> Drude(x[j], xo, gamma)]
    IN  KSum(x, C1, C2, C3, C4, D, F)

XArrays == UNION {[1..n -> XVals] : n \in 0..MaxX}

InitFMpar ==
    /\ nb = "FMpar"
    /\ pc = "call"
    /\ i = 0
    /\ \E x \in XArrays, C1 \in CVals, C2 \in CVals, C3 \in CVals, C4 \in CVals :
         \/ fm = [npar |-> 4, x |-> x, C1 |-> C1, C2 |-> C2, C3 |-> C3, C4 |-> C4,
                  xo |-> xo4, gamma |-> gamma4]
         \/ \E xo \in {46, 50}, gamma \in {10, 12} :
              fm = [npar |-> 6, x |-> x, C1 |-> C1, C2 |-> C2, C3 |-> C3, C4 |-> C4,
                    xo |-> xo, gamma |-> gamma]
    /\ k = <<>>
    /\ IdleChangeNaN /\ IdleGetImCoord /\ IdleEclipse /\ IdleMosaic
    /\ IdleLeo /\ IdleSaveArray /\ IdleUV /\ IdleLimits /\ IdleCells
    /\ IdleSession /\ IdleGunzip

\* k = FMpar(x, C1, C2, C3, C4): the tutorial's definition
CallFMpar4 ==
    /\ nb = "FMpar"
    /\ pc = "call"
    /\ fm.npar = 4
    /\ k' = FMpar4(fm.x, fm.C1, fm.C2, fm.C3, fm.C4)
    /\ pc' = "done"
    /\ UNCHANGED <<nb, i, fm>>
    /\ UNCHANGED <<cnVars, imVars, ecVars, mosVars, leoVars, saVars, uvVars, limVars, cellVars, sessVars, gzVars>>

\* k = FMpar(x, C1, C2, C3, C4, xo, gamma): the solution's definition
CallFMpar6 ==
    /\ nb = "FMpar"
    /\ pc = "call"
    /\ fm.npar = 6
    /\ k' = FMpar6(fm.x, fm.C1, fm.C2, fm.C3, fm.C4, fm.xo, fm.gamma)
    /\ pc' = "done"
    /\ UNCHANGED <<nb, i, fm>>
    /\ UNCHANGED <<cnVars, imVars, ecVars, mosVars, leoVars, saVars, uvVars, limVars, cellVars, sessVars, gzVars>>

(***************************************************************************)
(* GALEX MIS mosaic: getImCoord                                            *)
(*                                                                         *)
(* Coordinates and pixel positions are exact rational numbers.             *)
(***************************************************************************)
\* np.polyfit(x, y, 1) on two points: the least-squares line <<m, b>>,
\*   m = (n*Sxy - Sx*Sy) / (n*Sxx - Sx^2),  b = (Sy - m*Sx) / n,  n = 2
PolyFit1(x, y) ==
    LET n   == RInt(2)
        Sx  == RAdd(x[1], x[2])
        Sy  == RAdd(y[1], y[2])
        Sxy == RAdd(RMul(x[1], y[1]), RMul(x[2], y[2]))
        Sxx == RAdd(RMul(x[1], x[1]), RMul(x[2], x[2]))
        m   == RDiv(RSub(RMul(n, Sxy), RMul(Sx, Sy)),
                    RSub(RMul(n, Sxx), RMul(Sx, Sx)))
        b   == RDiv(RSub(Sy, RMul(m, Sx)), n)
    IN  << m, b >>

\* image.size[0]/2: true division
Half(n) == Rat(n, 2)

\* getImCoord with the limits mapped to the corners 0 and W of the canvas,
\* the half cutout left out
getImCoordCorner(coord_RA, coord_Dec, RA1, RAf, Dec1, Decf, image, extended_image) ==
    LET fRA  == PolyFit1(<< RA1, RAf >>, << RInt(0), RInt(extended_image[1]) >>)
        fDec == PolyFit1(<< Dec1, Decf >>, << RInt(extended_image[2]), RInt(0) >>)
    IN  << RAdd(RMul(fRA[1], coord_RA), fRA[2]),
           RAdd(RMul(fDec[1], coord_Dec), fDec[2]) >>

getImCoord(coord_RA, coord_Dec, RA1, RAf, Dec1, Decf, image, extended_image) ==
    LET RAx   == << RA1, RAf >>
        pixx  == << RSub(RInt(0), Half(image[1])),
                    RSub(RInt(extended_image[1]), Half(image[1])) >>
        fRA   == PolyFit1(RAx, pixx)
        ImCoord_RA == RAdd(RMul(fRA[1], coord_RA), fRA[2])
        Decx  == << Dec1, Decf >>
        pixy  == << RSub(RInt(extended_image[2]), Half(image[2])),
                    RSub(RInt(0), Half(image[2])) >>
        fDec  == PolyFit1(Decx, pixy)
        ImCoord_Dec == RAdd(RMul(fDec[1], coord_Dec), fDec[2])
    IN  << ImCoord_RA, ImCoord_Dec >>

\* limits of the canvas on one axis (RA1 # RAf, Dec1 # Decf)
LimitVals == {0, 2, 3}

\* (width, height) of a cutout and of the canvas
CutoutSizes == { <<1, 1>>, <<2, 3>> }

CanvasSizes == { <<3, 3>>, <<6, 9>> }

\* targets on one axis: the two limits, their midpoint, and a point outside
Targets(c1, cf) ==
    { RInt(c1), RInt(cf), Rat(c1 + cf, 2), RInt(cf + 1) }

InitGetImCoord ==
    /\ nb = "getImCoord"
    /\ pc = "call"
    /\ i = 0
    /\ \E RA1 \in LimitVals, RAf \in LimitVals, Dec1 \in LimitVals, Decf \in LimitVals :
         /\ RA1 # RAf
         /\ Dec1 # Decf
         /\ \E cRA \in Targets(RA1, RAf), cDec \in Targets(Dec1, Decf),
               image \in CutoutSizes, extended_image \in CanvasSizes :
              im = [coord_RA |-> cRA, coord_Dec |-> cDec,
                    RA1 |-> RInt(RA1), RAf |-> RInt(RAf),
                    Dec1 |-> RInt(Dec1), Decf |-> RInt(Decf),
                    image |-> image, extended_image |-> extended_image]
    /\ ImCoord = <<>>
    /\ IdleChangeNaN /\ IdleFMpar /\ IdleEclipse /\ IdleMosaic
    /\ IdleLeo /\ IdleSaveArray /\ IdleUV /\ IdleLimits /\ IdleCells
    /\ IdleSession /\ IdleGunzip

\* Im_RA[i], Im_Dec[i] = getImCoord(RAc, Decc, RA1, RAf, Dec1, Decf, im, im_exp)
CallGetImCoord ==
    /\ nb = "getImCoord"
    /\ pc = "call"
    /\ ImCoord' = getImCoord(im.coord_RA, im.coord_Dec, im.RA1, im.RAf,
                             im.Dec1, im.Decf, im.image, im.extended_image)
    /\ pc' = "done"
    /\ UNCHANGED <<nb, i, im>>
    /\ UNCHANGED <<cnVars, fmVars, ecVars, mosVars, leoVars, saVars, uvVars, limVars, cellVars, sessVars, gzVars>>

(***************************************************************************)
(* Eclipse candidates: the candidate-selection cell                        *)
(*                                                                         *)
(* A row of Table 4a is [APOGEE, qmin, mask]; mask says that qmin is not   *)
(* measured (a masked element of the column).  VizieR applies the filters  *)
(* Per < 100 and Conv = 1 before it returns the table.                     *)
(***************************************************************************)
MaxRows == 3

QminVals == {1, 2, 3}

RowKinds == {[qmin |-> q, mask |-> FALSE] : q \in QminVals}
              \cup {[qmin |-> 0, mask |-> TRUE]}

Catalogs ==
    UNION { { [j \in 1..n |-> [APOGEE |-> j, qmin |-> c[j].qmin, mask |-> c[j].mask]] :
                c \in [1..n -> RowKinds] } : n \in 0..MaxRows }

Perms(n) == {p \in [1..n -> 1..n] : \A a, b \in 1..n : a # b => p[a] # p[b]}

\* order of two rows in a sort by qmin: masked elements sort to the end
QminLe(r, s) == s.mask \/ (~r.mask /\ r.qmin <= s.qmin)

\* tbl.sort('qmin'): the orders np.argsort may produce (it is not stable)
SortedByQmin(t) ==
    { [j \in 1..Len(t) |-> t[p[j]]] : p \in
        {q \in Perms(Len(t)) : \A j \in 1..(Len(t) - 1) : QminLe(t[q[j]], t[q[j + 1]])} }

\* tbl.reverse()
Reverse(t) == [j \in 1..Len(t) |-> t[Len(t) + 1 - j]]

\* tbl[~tbl['qmin'].mask]
Unmasked(t) == SelectSeq(t, LAMBDA r : ~r.mask)

InitSelect ==
    /\ nb = "select"
    /\ pc = "cell"
    /\ catalogs \in Catalogs
    /\ tbl = <<>> /\ mast = <<>> /\ TASOC = <<>> /\ QLP = <<>> /\ i = 0
    /\ IdleChangeNaN /\ IdleFMpar /\ IdleGetImCoord /\ IdleMosaic
    /\ IdleLeo /\ IdleSaveArray /\ IdleUV /\ IdleLimits /\ IdleCells
    /\ IdleSession /\ IdleGunzip

\* tbl=catalogs[2]; tbl.sort('qmin'); tbl.reverse(); tbl=tbl[~tbl['qmin'].mask]
SelectCandidates ==
    /\ nb = "select"
    /\ pc = "cell"
    /\ \E sorted \in SortedByQmin(catalogs) :
         tbl' = Unmasked(Reverse(sorted))
    /\ pc' = "done"
    /\ UNCHANGED <<nb, catalogs, mast, TASOC, QLP, i>>
    /\ UNCHANGED <<cnVars, fmVars, imVars, mosVars, leoVars, saVars, uvVars, limVars, cellVars, sessVars, gzVars>>

(***************************************************************************)
(* Eclipse candidates: the light-curve flags                               *)
(*                                                                         *)
(* mast[j] is what Observations.query_region returns for the coordinate    *)
(* of candidate j: a set of observations [obs_collection, provenance_name].*)
(***************************************************************************)
MaxCand == 2

ObsKinds ==
    { [obs_collection |-> "HLSP", provenance_name |-> "TASOC"],
      [obs_collection |-> "HLSP", provenance_name |-> "QLP"],
      [obs_collection |-> "TESS", provenance_name |-> "SPOC"],
      [obs_collection |-> "TESS", provenance_name |-> "TASOC"] }

\* a test that also asks for obs_collection == 'HLSP'
AnyHLSPProvenance(obs_tbl, name) ==
    \E o \in obs_tbl : o.obs_collection = "HLSP" /\ o.provenance_name = name

\* np.any(obs_tbl['provenance_name']==name)
AnyProvenance(obs_tbl, name) ==
    \E o \in obs_tbl : o.provenance_name = name

InitSearch ==
    /\ nb = "search"
    /\ pc = "columns"
    /\ \E n \in 0..MaxCand :
         /\ tbl = [j \in 1..n |-> [APOGEE |-> j, qmin |-> 1, mask |-> FALSE]]
         /\ mast \in [1..n -> SUBSET ObsKinds]
    /\ catalogs = <<>> /\ TASOC = <<>> /\ QLP = <<>> /\ i = 0
    /\ IdleChangeNaN /\ IdleFMpar /\ IdleGetImCoord /\ IdleMosaic
    /\ IdleLeo /\ IdleSaveArray /\ IdleUV /\ IdleLimits /\ IdleCells
    /\ IdleSession /\ IdleGunzip

\* the cell that adds the columns TASOC and QLP, or resets them when the
\* cell is run again
InitColumns ==
    /\ nb = "search"
    /\ pc \in {"columns", "done"}
    /\ LET n == Len(tbl)
       IN  /\ TASOC' = [j \in 1..n |-> FALSE]
           /\ QLP' = [j \in 1..n |-> FALSE]
    /\ i' = 0
    /\ pc' = "loop"
    /\ UNCHANGED <<nb, catalogs, tbl, mast>>
    /\ UNCHANGED <<cnVars, fmVars, imVars, mosVars, leoVars, saVars, uvVars, limVars, cellVars, sessVars, gzVars>>

\* one iteration of for i in range(0,n); i counts from 0, the rows from 1
SearchStep ==
    /\ nb = "search"
    /\ pc = "loop"
    /\ i < Len(tbl)
    /\ LET obs_tbl == mast[tbl[i + 1].APOGEE]
       IN  /\ TASOC' = IF AnyProvenance(obs_tbl, "TASOC")
                         THEN [TASOC EXCEPT ![i + 1] = TRUE] ELSE TASOC
           /\ QLP' = IF AnyProvenance(obs_tbl, "QLP")
                       THEN [QLP EXCEPT ![i + 1] = TRUE] ELSE QLP
    /\ i' = i + 1
    /\ UNCHANGED <<nb, pc, catalogs, tbl, mast>>
    /\ UNCHANGED <<cnVars, fmVars, imVars, mosVars, leoVars, saVars, uvVars, limVars, cellVars, sessVars, gzVars>>

\* print('Done.')
SearchDone ==
    /\ nb = "search"
    /\ pc = "loop"
    /\ i = Len(tbl)
    /\ pc' = "done"
    /\ UNCHANGED <<nb, catalogs, tbl, mast, TASOC, QLP, i>>
    /\ UNCHANGED <<cnVars, fmVars, imVars, mosVars, leoVars, saVars, uvVars, limVars, cellVars, sessVars, gzVars>>

(***************************************************************************)
(* GALEX MIS mosaic: the expanded image                                    *)
(*                                                                         *)
(* A 2-D array is the sequence of its rows.                                *)
(***************************************************************************)
MaxW == 2

PixVals == {0, 1, 2}

\* np.zeros((r, c))
Zeros(r, c) == [a \in 1..r |-> [b \in 1..c |-> 0]]

\* np.moveaxis(values, 0, 1) of a 2-D array
MoveAxis01(m) ==
    IF Len(m) = 0 THEN <<>>
    ELSE [b \in 1..Len(m[1]) |-> [a \in 1..Len(m) |-> m[a][b]]]

\* np.append(arr, values, axis=0)
AppendAxis0(arr, values) == arr \o values

\* np.insert(arr, index, values, axis=0) with a scalar index: the rows of
\* values go in front of row index
InsertAxis0(arr, index, values) ==
    SubSeq(arr, 1, index) \o values \o SubSeq(arr, index + 1, Len(arr))

\* np.insert(arr, index, values, axis=1) with a scalar index: values is
\* turned by moveaxis(values, 0, 1) and its columns go in front of column index
InsertAxis1(arr, index, values) ==
    LET v == MoveAxis01(values)
    IN  [a \in 1..Len(arr) |->
            SubSeq(arr[a], 1, index) \o v[a] \o SubSeq(arr[a], index + 1, Len(arr[a]))]

\* the cell with the second block of columns inserted at column w
ExpandedMisplaced(image) ==
    LET w == Len(image)
        a == InsertAxis0(AppendAxis0(image, Zeros(w, w)), 0, Zeros(w, w))
        b == InsertAxis1(a, 0, Zeros(w, 3 * w))
    IN  InsertAxis1(b, w, Zeros(w, 3 * w))

\* the cell that builds new_image from images_mbm15[0]
Expanded(image) ==
    LET w          == Len(image)
        new_zeros  == Zeros(w, w)
        new_image1 == AppendAxis0(image, new_zeros)
        new_image2 == InsertAxis0(new_image1, 0, new_zeros)
        new_zeros2 == Zeros(w, 3 * w)
        new_image3 == InsertAxis1(new_image2, 0, new_zeros2)
    IN  InsertAxis1(new_image3, 2 * w, new_zeros2)

InitMosaic ==
    /\ nb = "mosaic"
    /\ pc = "cell"
    /\ i = 0
    /\ \E w \in 1..MaxW : images_mbm15 \in [1..w -> [1..w -> PixVals]]
    /\ new_image = <<>>
    /\ IdleChangeNaN /\ IdleFMpar /\ IdleGetImCoord /\ IdleEclipse
    /\ IdleLeo /\ IdleSaveArray /\ IdleUV /\ IdleLimits /\ IdleCells
    /\ IdleSession /\ IdleGunzip

ExpandImage ==
    /\ nb = "mosaic"
    /\ pc = "cell"
    /\ new_image' = Expanded(images_mbm15)
    /\ pc' = "done"
    /\ UNCHANGED <<nb, i, images_mbm15>>
    /\ UNCHANGED <<cnVars, fmVars, imVars, ecVars, leoVars, saVars, uvVars, limVars, cellVars, sessVars, gzVars>>

(***************************************************************************)
(* Leo I: the outer stars                                                  *)
(*                                                                         *)
(* Coordinates are counted in 10^-4 degrees.                               *)
(***************************************************************************)
MaxStars == 2

\* ra = "152.1146", dec = "12.3059"
ra == 1521146

dec == 123059

\* 4.5' = 0.075 degrees
OuterRadius == 750

Offsets == {-1000, -750, 0, 750, 1000}

Stars == {[raMean |-> ra + a, decMean |-> dec + b] : a \in Offsets, b \in Offsets}

\* np.where((tab["raMean"] <= float(ra)+0.075) & (tab["decMean"] <= float(dec)+0.075))
OuterIndices(t) ==
    SelectSeq([j \in 1..Len(t) |-> j],
              LAMBDA j : t[j].raMean <= ra + OuterRadius
                            /\ t[j].decMean <= dec + OuterRadius)

InitLeo ==
    /\ nb = "Leo I"
    /\ pc = "cell"
    /\ i = 0
    /\ \E n \in 0..MaxStars : tab \in [1..n -> Stars]
    /\ ind = <<>>
    /\ IdleChangeNaN /\ IdleFMpar /\ IdleGetImCoord /\ IdleEclipse
    /\ IdleMosaic /\ IdleSaveArray /\ IdleUV /\ IdleLimits /\ IdleCells
    /\ IdleSession /\ IdleGunzip

\* ind = np.where(...); g_mag_outer = tab["gMeanApMag"][ind]; ...
FilterOuter ==
    /\ nb = "Leo I"
    /\ pc = "cell"
    /\ ind' = OuterIndices(tab)
    /\ pc' = "done"
    /\ UNCHANGED <<nb, i, tab>>
    /\ UNCHANGED <<cnVars, fmVars, imVars, ecVars, mosVars, saVars, uvVars, limVars, cellVars, sessVars, gzVars>>

(***************************************************************************)
(* UV extinction curves, Part 1: saveArray                                 *)
(*                                                                         *)
(* Values are counted in tenths of the last digit that print shows: print  *)
(* shows v \div 10.  The file system decides what np.loadtxt reads back:   *)
(* element j as written, off by less than print shows, or off by more.     *)
(***************************************************************************)
MaxSaved == 7

\* the array to save: n distinct values
Ramp(n) == [j \in 1..n |-> 10 * j]

\* what np.loadtxt may read back: the array, each element off by 0, 1 or 10
ReadBack(arr) ==
    { [j \in 1..Len(arr) |-> arr[j] + e[j]] : e \in [1..Len(arr) -> {0, 1, 10}] }

\* what print shows of an array: numpy prints 8 significant digits
Shown(arr) == [j \in 1..Len(arr) |-> arr[j] \div 10]

\* array[:3]
First3(arr) == SubSeq(arr, 1, IF Len(arr) < 3 THEN Len(arr) ELSE 3)

\* array[-3:]
Last3(arr) == SubSeq(arr, IF Len(arr) < 3 THEN 1 ELSE Len(arr) - 2, Len(arr))

\* the two print calls in front of np.savetxt
PrintedOriginal(arr) == << Shown(First3(arr)), Shown(Last3(arr)) >>

\* the two print calls behind np.loadtxt
PrintedContent(c) == << Shown(First3(c)), Shown(Last3(c)) >>

InitSaveArray ==
    /\ nb = "saveArray"
    /\ pc = "call"
    /\ i = 0
    /\ \E n \in 0..MaxSaved : array = Ramp(n)
    /\ content = <<>>
    /\ out = <<>>
    /\ IdleChangeNaN /\ IdleFMpar /\ IdleGetImCoord /\ IdleEclipse
    /\ IdleMosaic /\ IdleLeo /\ IdleUV /\ IdleLimits /\ IdleCells
    /\ IdleSession /\ IdleGunzip

\* saveArray(array, filename) on an array that np.loadtxt returns as a 1-D
\* array: it prints four slices and returns None
SaveArrayReturns ==
    /\ nb = "saveArray"
    /\ pc = "call"
    /\ Len(array) # 1
    /\ \E c \in ReadBack(array) :
         /\ content' = c
         /\ out' = PrintedOriginal(array) \o PrintedContent(c)
    /\ pc' = "None"
    /\ UNCHANGED <<nb, i, array>>
    /\ UNCHANGED <<cnVars, fmVars, imVars, ecVars, mosVars, leoVars, uvVars, limVars, cellVars, sessVars, gzVars>>

\* saveArray on an array of one element: np.loadtxt returns a 0-d array and
\* content[:3] raises IndexError
SaveArrayRaises ==
    /\ nb = "saveArray"
    /\ pc = "call"
    /\ Len(array) = 1
    /\ \E c \in ReadBack(array) : content' = c
    /\ out' = PrintedOriginal(array)
    /\ pc' = "IndexError"
    /\ UNCHANGED <<nb, i, array>>
    /\ UNCHANGED <<cnVars, fmVars, imVars, ecVars, mosVars, leoVars, uvVars, limVars, cellVars, sessVars, gzVars>>

(***************************************************************************)
(* UV extinction curves: the .txt files of Part 1 and Part 2               *)
(*                                                                         *)
(* nb is "uv" for the two tutorial notebooks and "uv solution" for their   *)
(* solutions.  Part 2 runs after Part 1 in the same working directory.  A  *)
(* file of the directory is [name, by]: by is "saveArray" for a file that  *)
(* Part 1 wrote and "user" for one the reader copied into the directory.   *)
(***************************************************************************)
\* filenames of the saveArray loop
filenames(n) ==
    IF n = "uv"
    THEN << "wav_av214_sw.txt", "flux_av214_sw.txt", "wav_av380_sw.txt",
            "flux_av380_sw.txt", "wav_av214_lw.txt", "flux_av214_lw.txt",
            "wav_av380_lw.txt", "flux_av380_lw.txt" >>
    ELSE << "wav_sk_69_206_sw.txt", "flux_sk_69_206_sw.txt", "wav_sk_67_5_sw.txt",
            "flux_sk_67_5_sw.txt", "wav_sk_69_206_lw.txt", "flux_sk_69_206_lw.txt",
            "wav_sk_67_5_lw.txt", "flux_sk_67_5_lw.txt" >>

\* a Part 2 that loads files of the saveArray loop of Part 1
loadtxtNamesOfPart1(n) == << filenames(n)[1], filenames(n)[5] >>

\* the files the data loading cell of Part 2 hands to np.loadtxt
loadtxtNames(n) ==
    IF n = "uv"
    THEN << "sw_av214_av380.txt", "lw_av214_av380.txt" >>
    ELSE << "sw_sk69206_sk675.txt", "lw_sk69206_sk675.txt" >>

\* the names of the files of a directory
Names(d) == {f.name : f \in d}

InitUV ==
    /\ nb \in {"uv", "uv solution"}
    /\ pc = "part 1"
    /\ i = 0
    /\ \E copied \in SUBSET {loadtxtNames(nb)[j] : j \in 1..Len(loadtxtNames(nb))} :
         disk = {[name |-> f, by |-> "user"] : f \in copied}
    /\ loaded = <<>>
    /\ IdleChangeNaN /\ IdleFMpar /\ IdleGetImCoord /\ IdleEclipse
    /\ IdleMosaic /\ IdleLeo /\ IdleSaveArray /\ IdleLimits /\ IdleCells
    /\ IdleSession /\ IdleGunzip

\* one iteration of for i in range(len(arrays)): saveArray(arrays[i],filenames[i])
SaveArrayLoop ==
    /\ nb \in {"uv", "uv solution"}
    /\ pc = "part 1"
    /\ i < Len(filenames(nb))
    /\ disk' = {f \in disk : f.name # filenames(nb)[i + 1]}
                  \cup {[name |-> filenames(nb)[i + 1], by |-> "saveArray"]}
    /\ i' = i + 1
    /\ UNCHANGED <<nb, pc, loaded>>
    /\ UNCHANGED <<cnVars, fmVars, imVars, ecVars, mosVars, leoVars, saVars, limVars, cellVars, sessVars, gzVars>>

\* Part 1 has run to its end; Part 2 is opened
OpenPart2 ==
    /\ nb \in {"uv", "uv solution"}
    /\ pc = "part 1"
    /\ i = Len(filenames(nb))
    /\ pc' = "part 2"
    /\ UNCHANGED <<nb, i, disk, loaded>>
    /\ UNCHANGED <<cnVars, fmVars, imVars, ecVars, mosVars, leoVars, saVars, limVars, cellVars, sessVars, gzVars>>

\* one np.loadtxt of the data loading cell, of a file that exists
LoadTxt ==
    /\ nb \in {"uv", "uv solution"}
    /\ pc = "part 2"
    /\ Len(loaded) < Len(loadtxtNames(nb))
    /\ loadtxtNames(nb)[Len(loaded) + 1] \in Names(disk)
    /\ loaded' = Append(loaded, loadtxtNames(nb)[Len(loaded) + 1])
    /\ UNCHANGED <<nb, pc, i, disk>>
    /\ UNCHANGED <<cnVars, fmVars, imVars, ecVars, mosVars, leoVars, saVars, limVars, cellVars, sessVars, gzVars>>

\* np.loadtxt of a file that does not exist raises FileNotFoundError
LoadTxtFails ==
    /\ nb \in {"uv", "uv solution"}
    /\ pc = "part 2"
    /\ Len(loaded) < Len(loadtxtNames(nb))
    /\ loadtxtNames(nb)[Len(loaded) + 1] \notin Names(disk)
    /\ pc' = "FileNotFoundError"
    /\ UNCHANGED <<nb, i, disk, loaded>>
    /\ UNCHANGED <<cnVars, fmVars, imVars, ecVars, mosVars, leoVars, saVars, limVars, cellVars, sessVars, gzVars>>

(***************************************************************************)
(* GALEX MIS mosaic: coordinate limits from the FITS header                *)
(*                                                                         *)
(* CRVAL and CDELT are whole degrees, CRPIX and the limits are exact       *)
(* rational numbers (CRPIX of a GALEX tile is 1920.5).                     *)
(***************************************************************************)
MaxNaxis == 3

CdeltVals == {-1, 1, 2}

\* np.cos(crval2*(2*np.pi/360.0)) at the declinations of DecVals
Cos(deg) == CASE deg = 0 -> <<1, 1>>
              [] deg = 60 -> <<1, 2>>

DecVals == {0, 60}

Headers ==
    {[NAXIS1 |-> n1, NAXIS2 |-> n2, CDELT1 |-> c1, CDELT2 |-> c2,
      CRPIX1 |-> p1, CRPIX2 |-> p2, CRVAL1 |-> 10, CRVAL2 |-> v2] :
        n1 \in 2..MaxNaxis, n2 \in 2..MaxNaxis,
        c1 \in CdeltVals, c2 \in CdeltVals,
        p1 \in {<<1, 1>>, <<3, 2>>, <<2, 1>>, <<5, 2>>},
        p2 \in {<<1, 1>>, <<3, 2>>, <<2, 1>>, <<5, 2>>}, v2 \in DecVals}

\* cdelt1/np.cos(crval2*(2*np.pi/360.0))
StepRA(h) == RDiv(RInt(h.CDELT1), Cos(h.CRVAL2))

\* RA1 = crval1 - (crpix1-1)*cdelt1/np.cos(...)
\* RAf = crval1 + (naxis1+1-crpix1)*cdelt1/np.cos(...)
\* Dec1 = crval2 - (crpix2-1)*cdelt2
\* Decf = crval2 + (naxis2+1-crpix2)*cdelt2
ImageLimits(h) ==
    [RA1  |-> RSub(RInt(h.CRVAL1),
                   RMul(RSub(h.CRPIX1, RInt(1)), StepRA(h))),
     RAf  |-> RAdd(RInt(h.CRVAL1),
                   RMul(RSub(RInt(h.NAXIS1 + 1), h.CRPIX1), StepRA(h))),
     Dec1 |-> RSub(RInt(h.CRVAL2),
                   RMul(RSub(h.CRPIX2, RInt(1)), RInt(h.CDELT2))),
     Decf |-> RAdd(RInt(h.CRVAL2),
                   RMul(RSub(RInt(h.NAXIS2 + 1), h.CRPIX2), RInt(h.CDELT2)))]

\* RA1 = crval1 - (crpix1*3-1)*cdelt1/np.cos(...)
\* RAf = crval1 + (crpix1*3-1)*cdelt1/np.cos(...)
\* Dec1 = crval2 - (crpix2*3-1)*cdelt2
\* Decf = crval2 + (crpix2*3-1)*cdelt2
ExpandedLimits(h) ==
    [RA1  |-> RSub(RInt(h.CRVAL1),
                   RMul(RSub(RMul(h.CRPIX1, RInt(3)), RInt(1)), StepRA(h))),
     RAf  |-> RAdd(RInt(h.CRVAL1),
                   RMul(RSub(RMul(h.CRPIX1, RInt(3)), RInt(1)), StepRA(h))),
     Dec1 |-> RSub(RInt(h.CRVAL2),
                   RMul(RSub(RMul(h.CRPIX2, RInt(3)), RInt(1)), RInt(h.CDELT2))),
     Decf |-> RAdd(RInt(h.CRVAL2),
                   RMul(RSub(RMul(h.CRPIX2, RInt(3)), RInt(1)), RInt(h.CDELT2)))]

\* Part 1 reads one header; Part 2 reads the header of the central image
InitLimits ==
    /\ nb \in {"GALEX pt1", "GALEX pt2"}
    /\ pc = "header"
    /\ i = 0
    /\ header \in Headers
    /\ limits_mbm15 = <<>>
    /\ limits = <<>>
    /\ IdleChangeNaN /\ IdleFMpar /\ IdleGetImCoord /\ IdleEclipse
    /\ IdleMosaic /\ IdleLeo /\ IdleSaveArray /\ IdleUV /\ IdleCells
    /\ IdleSession /\ IdleGunzip

\* Part 1: the cell that computes RA1, RAf, Dec1, Decf of the image
CoordinateLimitsCell ==
    /\ nb = "GALEX pt1"
    /\ pc = "header"
    /\ limits' = ImageLimits(header)
    /\ pc' = "done"
    /\ UNCHANGED <<nb, i, header, limits_mbm15>>
    /\ UNCHANGED <<cnVars, fmVars, imVars, ecVars, mosVars, leoVars, saVars, uvVars, cellVars, sessVars, gzVars>>

\* Part 2: the loading loop, for the central image
LoadingLoop ==
    /\ nb = "GALEX pt2"
    /\ pc = "header"
    /\ limits_mbm15' = ImageLimits(header)
    /\ pc' = "loaded"
    /\ UNCHANGED <<nb, i, header, limits>>
    /\ UNCHANGED <<cnVars, fmVars, imVars, ecVars, mosVars, leoVars, saVars, uvVars, cellVars, sessVars, gzVars>>

\* Part 2: the cell that computes the limits of the expanded image
ExpandedLimitsCell ==
    /\ nb = "GALEX pt2"
    /\ pc = "loaded"
    /\ limits' = ExpandedLimits(header)
    /\ pc' = "done"
    /\ UNCHANGED <<nb, i, header, limits_mbm15>>
    /\ UNCHANGED <<cnVars, fmVars, imVars, ecVars, mosVars, leoVars, saVars, uvVars, cellVars, sessVars, gzVars>>

(***************************************************************************)
(* UV extinction curves, Part 1: the cells from reading the spectra to     *)
(* the removal of the problematic values, run top to bottom                *)
(***************************************************************************)
LwLen == 4

NegInf == -1000000

\* np.log10 of one float
Log10(v) ==
    CASE v = NaN -> NaN
      [] v # NaN /\ v < 0 -> NaN
      [] v = 0 -> NegInf
      [] v = 1 -> 0
      [] v = 10 -> 1

Max(a, b) == IF a > b THEN a ELSE b

\* arr[a:b] for negative a and b
SliceNeg(arr, a, b) ==
    LET start == Max(Len(arr) + a, 0)
        stop  == Max(Len(arr) + b, 0)
    IN  [j \in 1..Max(stop - start, 0) |-> arr[start + j]]

\* hdulist[1].data[0][1] of the four files of AzV 214 and AzV 380
Skies ==
    {[av214_sw |-> <<a>>, av214_lw |-> b, av380_sw |-> <<c>>, av380_lw |-> e] :
        a \in {-1, 1}, b \in [1..LwLen -> {-1, 0, 1}],
        c \in {-1, 1}, e \in [1..LwLen -> {-1, 10}]}

InitCells ==
    /\ nb = "uv pt1 cells"
    /\ pc = "read av214"
    /\ i = 0
    /\ sky \in Skies
    /\ flux = <<>>
    /\ applied = {}
    /\ logs = <<>>
    /\ IdleChangeNaN /\ IdleFMpar /\ IdleGetImCoord /\ IdleEclipse
    /\ IdleMosaic /\ IdleLeo /\ IdleSaveArray /\ IdleUV /\ IdleLimits
    /\ IdleSession /\ IdleGunzip

\* flux_av214_sw = spectrum_av214_sw[0][1]; flux_av214_lw = spectrum_av214_lw[0][1]
ReadAv214 ==
    /\ nb = "uv pt1 cells"
    /\ pc = "read av214"
    /\ flux' = [av214_sw |-> sky.av214_sw, av214_lw |-> sky.av214_lw]
    /\ pc' = "print log"
    /\ UNCHANGED <<nb, i, sky, applied, logs>>
    /\ UNCHANGED <<cnVars, fmVars, imVars, ecVars, mosVars, leoVars, saVars, uvVars, limVars, sessVars, gzVars>>

\* print("log(flux_av214_lw):", np.log10(flux_av214_lw[-5:-3]))
PrintLog ==
    /\ nb = "uv pt1 cells"
    /\ pc = "print log"
    /\ logs' = Append(logs,
                 [of |-> "av214_lw",
                  afterChangeNaN |-> "av214_lw" \in applied,
                  value |-> LET s == SliceNeg(flux.av214_lw, -5, -3)
                            IN  [j \in 1..Len(s) |-> Log10(s[j])]])
    /\ pc' = "read av380"
    /\ UNCHANGED <<nb, i, sky, flux, applied>>
    /\ UNCHANGED <<cnVars, fmVars, imVars, ecVars, mosVars, leoVars, saVars, uvVars, limVars, sessVars, gzVars>>

\* the cell that reads the spectra of AzV 380 and calls changeNaN on the
\* short wavelength pair and on the long wavelength pair
ReadAv380AndChangeNaN ==
    /\ nb = "uv pt1 cells"
    /\ pc = "read av380"
    /\ LET sw == changeNaN(WavGrid(1150, Len(flux.av214_sw)), flux.av214_sw,
                           WavGrid(1150, Len(sky.av380_sw)), sky.av380_sw)
           lw == changeNaN(WavGrid(1850, Len(flux.av214_lw)), flux.av214_lw,
                           WavGrid(1850, Len(sky.av380_lw)), sky.av380_lw)
       IN  flux' = [av214_sw |-> sw[2], av214_lw |-> lw[2],
                    av380_sw |-> sw[4], av380_lw |-> lw[4]]
    /\ applied' = {"av214_sw", "av214_lw", "av380_sw", "av380_lw"}
    /\ pc' = "done"
    /\ UNCHANGED <<nb, i, sky, logs>>
    /\ UNCHANGED <<cnVars, fmVars, imVars, ecVars, mosVars, leoVars, saVars, uvVars, limVars, sessVars, gzVars>>

(***************************************************************************)
(* The notebooks that read or write local files, run one after another in  *)
(* one working directory, in any order.  A file name is the tuple of the   *)
(* parts the code concatenates.  A file of the directory is [name, by]: by *)
(* is the notebook that wrote it, or "user" for a file the reader put      *)
(* there (a download from the MAST portal, a copy).  The FITS files that   *)
(* Observations.download_products fetches are not written by np.savetxt,   *)
(* plt.savefig or ascii.write and are left out.                            *)
(***************************************************************************)
NImages == 3

Notebooks ==
    {"GALEX pt2 solutions", "GALEX pt2", "UV pt1", "UV pt1 solutions",
     "UV pt2", "UV pt2 solutions", "eclipse solutions"}

WriteOp(name) == [op |-> "write", name |-> name]

ReadOp(name) == [op |-> "read", name |-> name]

\* range(a, n), n being the number of images
Range(a) == [j \in 1..(NImages - a) |-> a + j - 1]

\* 'mbm15_'+str(i)+'.jpg' and 'mbm15_'+str(i)+'_sol.jpg'
Tile(j, suffix) == <<"mbm15_", j, suffix>>

\* for i in range(1, len(RA1_mbm15)): plt.savefig('mbm15_'+str(i)+suffix)
SaveTiles(suffix) == [j \in DOMAIN Range(1) |-> WriteOp(Tile(Range(1)[j], suffix))]

\* for i in range(a, n): Image.open('mbm15_'+str(i)+suffix)
OpenTiles(a, suffix) == [j \in DOMAIN Range(a) |-> ReadOp(Tile(Range(a)[j], suffix))]

RECURSIVE Flatten(_)
Flatten(ss) == IF ss = <<>> THEN <<>> ELSE Head(ss) \o Flatten(Tail(ss))

\* saveArray(arrays[i], filenames[i]) for every i: np.savetxt, then np.loadtxt
SaveArrayOps(names) ==
    Flatten([j \in 1..Len(names) |-> << WriteOp(<<names[j]>>), ReadOp(<<names[j]>>) >>])

LoadTxtOps(names) == [j \in 1..Len(names) |-> ReadOp(<<names[j]>>)]

\* the solutions notebook of the GALEX mosaic
GalexSolOps ==
    SaveTiles("_sol.jpg") \o OpenTiles(1, "_sol.jpg")
      \o << WriteOp(<<"expanded_sol.jpg">>) >>
      \o << ReadOp(<<"expanded_sol.jpg">>) >> \o OpenTiles(1, "_sol.jpg")
      \o << ReadOp(<<"expanded_sol.jpg">>) >> \o OpenTiles(1, "_sol.jpg")
      \o << WriteOp(<<"mbm15_mosaic_sol.jpg">>) >>

\* the tutorial notebook of the GALEX mosaic
GalexOps ==
    SaveTiles(".jpg") \o OpenTiles(1, ".jpg")
      \o << WriteOp(<<"expanded.pdf">>) >>
      \o << ReadOp(<<"expanded.jpg">>), ReadOp(Tile(1, ".jpg")) >>
      \o << ReadOp(<<"expanded.jpg">>), ReadOp(Tile(1, ".jpg")) >>
      \o << ReadOp(Tile(1, ".jpg")) >> \o OpenTiles(2, ".jpg")
      \o << ReadOp(<<"expanded.jpg">>) >> \o OpenTiles(1, ".jpg")
      \o << WriteOp(<<"mbm15_mosaic.jpg">>) >>

\* ascii.write(..., 'coords.csv'); ascii.read('MAST_Crossmatch_All_Observati.csv')
EclipseSolOps ==
    << WriteOp(<<"coords.csv">>), ReadOp(<<"MAST_Crossmatch_All_Observati.csv">>) >>

\* the file operations of a notebook, in the order of its cells
FileOps(n) ==
    CASE n = "GALEX pt2 solutions" -> GalexSolOps
      [] n = "GALEX pt2" -> GalexOps
      [] n = "UV pt1" -> SaveArrayOps(filenames("uv"))
      [] n = "UV pt1 solutions" -> SaveArrayOps(filenames("uv solution"))
      [] n = "UV pt2" -> LoadTxtOps(loadtxtNames("uv"))
      [] n = "UV pt2 solutions" -> LoadTxtOps(loadtxtNames("uv solution"))
      [] n = "eclipse solutions" -> EclipseSolOps

\* the files no notebook writes, which the reader may have put in place
UserFiles ==
    { {<<"expanded.jpg">>},
      {<<"MAST_Crossmatch_All_Observati.csv">>},
      {<<loadtxtNames(n)[j]>> : n \in {"uv", "uv solution"}, j \in 1..2} }

InitSession ==
    /\ nb = "session"
    /\ pc = "idle"
    /\ i = 0
    /\ \E put \in SUBSET UserFiles :
         dir = {[name |-> f, by |-> "user"] : f \in UNION put}
    /\ opened = {}
    /\ ran = {}
    /\ IdleChangeNaN /\ IdleFMpar /\ IdleGetImCoord /\ IdleEclipse
    /\ IdleMosaic /\ IdleLeo /\ IdleSaveArray /\ IdleUV /\ IdleLimits
    /\ IdleCells /\ IdleGunzip

\* the reader opens a notebook that has not been run and runs it from the top
OpenNotebook ==
    /\ nb = "session"
    /\ pc = "idle"
    /\ \E n \in Notebooks \ ran : pc' = n
    /\ i' = 0
    /\ UNCHANGED <<nb, dir, opened, ran>>
    /\ UNCHANGED <<cnVars, fmVars, imVars, ecVars, mosVars, leoVars, saVars, uvVars, limVars, cellVars, gzVars>>

\* np.savetxt, plt.savefig or ascii.write: the file is created or replaced
WriteFile ==
    /\ nb = "session"
    /\ pc \in Notebooks
    /\ i < Len(FileOps(pc))
    /\ FileOps(pc)[i + 1].op = "write"
    /\ dir' = {f \in dir : f.name # FileOps(pc)[i + 1].name}
                 \cup {[name |-> FileOps(pc)[i + 1].name, by |-> pc]}
    /\ i' = i + 1
    /\ UNCHANGED <<nb, pc, opened, ran>>
    /\ UNCHANGED <<cnVars, fmVars, imVars, ecVars, mosVars, leoVars, saVars, uvVars, limVars, cellVars, gzVars>>

\* np.loadtxt, Image.open or ascii.read of a file that exists
OpenFile ==
    /\ nb = "session"
    /\ pc \in Notebooks
    /\ i < Len(FileOps(pc))
    /\ FileOps(pc)[i + 1].op = "read"
    /\ \E f \in dir :
         /\ f.name = FileOps(pc)[i + 1].name
         /\ opened' = opened \cup {[name |-> f.name, reader |-> pc, by |-> f.by]}
    /\ i' = i + 1
    /\ UNCHANGED <<nb, pc, dir, ran>>
    /\ UNCHANGED <<cnVars, fmVars, imVars, ecVars, mosVars, leoVars, saVars, uvVars, limVars, cellVars, gzVars>>

\* the file does not exist: FileNotFoundError ends the run of the notebook
OpenFileFails ==
    /\ nb = "session"
    /\ pc \in Notebooks
    /\ i < Len(FileOps(pc))
    /\ FileOps(pc)[i + 1].op = "read"
    /\ FileOps(pc)[i + 1].name \notin Names(dir)
    /\ ran' = ran \cup {pc}
    /\ pc' = "idle"
    /\ UNCHANGED <<nb, i, dir, opened>>
    /\ UNCHANGED <<cnVars, fmVars, imVars, ecVars, mosVars, leoVars, saVars, uvVars, limVars, cellVars, gzVars>>

\* the notebook has run to its last cell
NotebookEnds ==
    /\ nb = "session"
    /\ pc \in Notebooks
    /\ i = Len(FileOps(pc))
    /\ ran' = ran \cup {pc}
    /\ pc' = "idle"
    /\ UNCHANGED <<nb, i, dir, opened>>
    /\ UNCHANGED <<cnVars, fmVars, imVars, ecVars, mosVars, leoVars, saVars, uvVars, limVars, cellVars, gzVars>>

(***************************************************************************)
(* GALEX MIS mosaic: the loop that decompresses and opens the files        *)
(*                                                                         *)
(* os.system starts gunzip as a child process and waits for it.  The child *)
(* takes its own steps.  A file is "gz" as downloaded, "fits" when it is   *)
(* already decompressed (the notebook was run before) and "missing" when   *)
(* the download left nothing.                                              *)
(***************************************************************************)
MaxFiles == 2

\* os.system returns although the child has not exited
ReturnsAtOnce(c) == c \in {"running", "exited"}

\* os.system returns when the child has exited
Returns(c) == c = "exited"

\* the child after the wait of os.system: an exited child is reaped
Reaped(c) == IF c = "exited" THEN "none" ELSE c

InitGunzip ==
    /\ nb = "gunzip loop"
    /\ pc = "os.system"
    /\ i = 0
    /\ \E n \in 1..MaxFiles : files \in [1..n -> {"gz", "fits", "missing"}]
    /\ child = "none"
    /\ hdus = <<>>
    /\ IdleChangeNaN /\ IdleFMpar /\ IdleGetImCoord /\ IdleEclipse
    /\ IdleMosaic /\ IdleLeo /\ IdleSaveArray /\ IdleUV /\ IdleLimits
    /\ IdleCells /\ IdleSession

\* os.system("gunzip " + filename[i]): the child process is started
OsSystem ==
    /\ nb = "gunzip loop"
    /\ pc = "os.system"
    /\ child' = "running"
    /\ pc' = "waiting"
    /\ UNCHANGED <<nb, i, files, hdus>>
    /\ UNCHANGED <<cnVars, fmVars, imVars, ecVars, mosVars, leoVars, saVars, uvVars, limVars, cellVars, sessVars>>

\* gunzip replaces filename[i] by the decompressed file and exits; it
\* exits with an error when there is no .gz file
Gunzip ==
    /\ nb = "gunzip loop"
    /\ child = "running"
    /\ files' = IF files[i + 1] = "gz" THEN [files EXCEPT ![i + 1] = "fits"]
                ELSE files
    /\ child' = "exited"
    /\ UNCHANGED <<nb, pc, i, hdus>>
    /\ UNCHANGED <<cnVars, fmVars, imVars, ecVars, mosVars, leoVars, saVars, uvVars, limVars, cellVars, sessVars>>

\* os.system returns the exit status, whatever it is
OsSystemReturns ==
    /\ nb = "gunzip loop"
    /\ pc = "waiting"
    /\ Returns(child)
    /\ child' = Reaped(child)
    /\ pc' = "fits.open"
    /\ UNCHANGED <<nb, i, files, hdus>>
    /\ UNCHANGED <<cnVars, fmVars, imVars, ecVars, mosVars, leoVars, saVars, uvVars, limVars, cellVars, sessVars>>

\* with fits.open(filename[i][:-3]) as hdulist: ... and the rest of the
\* loop body; the loop goes on with the next file
FitsOpen ==
    /\ nb = "gunzip loop"
    /\ pc = "fits.open"
    /\ files[i + 1] = "fits"
    /\ hdus' = Append(hdus, i)
    /\ i' = i + 1
    /\ pc' = IF i + 1 < Len(files) THEN "os.system" ELSE "done"
    /\ UNCHANGED <<nb, files, child>>
    /\ UNCHANGED <<cnVars, fmVars, imVars, ecVars, mosVars, leoVars, saVars, uvVars, limVars, cellVars, sessVars>>

\* fits.open of a file that does not exist raises FileNotFoundError
FitsOpenFails ==
    /\ nb = "gunzip loop"
    /\ pc = "fits.open"
    /\ files[i + 1] # "fits"
    /\ pc' = "FileNotFoundError"
    /\ UNCHANGED <<nb, i, files, child, hdus>>
    /\ UNCHANGED <<cnVars, fmVars, imVars, ecVars, mosVars, leoVars, saVars, uvVars, limVars, cellVars, sessVars>>

(***************************************************************************)
(* The specification                                                       *)
(***************************************************************************)
Init ==
    \/ InitChangeNaN
    \/ InitFMpar
    \/ InitGetImCoord
    \/ InitSelect
    \/ InitSearch
    \/ InitMosaic
    \/ InitLeo
    \/ InitSaveArray
    \/ InitUV
    \/ InitLimits
    \/ InitCells
    \/ InitSession
    \/ InitGunzip

Next ==
    \/ CallChangeNaN
    \/ CallFMpar4
    \/ CallFMpar6
    \/ CallGetImCoord
    \/ SelectCandidates
    \/ InitColumns
    \/ SearchStep
    \/ SearchDone
    \/ ExpandImage
    \/ FilterOuter
    \/ SaveArrayReturns
    \/ SaveArrayRaises
    \/ SaveArrayLoop
    \/ OpenPart2
    \/ LoadTxt
    \/ LoadTxtFails
    \/ CoordinateLimitsCell
    \/ LoadingLoop
    \/ ExpandedLimitsCell
    \/ ReadAv214
    \/ PrintLog
    \/ ReadAv380AndChangeNaN
    \/ OpenNotebook
    \/ WriteFile
    \/ OpenFile
    \/ OpenFileFails
    \/ NotebookEnds
    \/ OsSystem
    \/ Gunzip
    \/ OsSystemReturns
    \/ FitsOpen
    \/ FitsOpenFails

Spec == Init /\ [][Next]_vars

(***************************************************************************)
(* C1                                                                      *)
(***************************************************************************)
\* the rows of the input in which neither star's flux is negative
KeptRows == {j \in DOMAIN spectrum[2] :
                ~FLt(spectrum[2][j], 0) /\ ~FLt(spectrum[4][j], 0)}

\* the p-th smallest element of the set of indices S
NthOf(S, p) == CHOOSE j \in S : Cardinality({m \in S : m <= j}) = p

\* C1: the four arrays changeNaN returns hold exactly the rows of its input
\* in which neither star's flux is negative, in their original order: a row
\* is deleted from all four arrays iff either star's flux is negative there.
ChangeNaNKeepsNonNegativeRows ==
    (nb = "changeNaN" /\ pc = "done") =>
        \A a \in 1..4 :
            /\ Len(changed[a]) = Cardinality(KeptRows)
            /\ \A p \in 1..Len(changed[a]) :
                 changed[a][p] = spectrum[a][NthOf(KeptRows, p)]

\* a run in which one row goes for the first star's flux, one for the second
\* star's, and one row with zero flux stays
ChangeNaNWitness ==
    /\ nb = "changeNaN" /\ pc = "done"
    /\ spectrum[2] = <<-1, 1, 0>>
    /\ spectrum[4] = <<1, -1, 0>>
    /\ changed = << <<1153>>, <<0>>, <<1853>>, <<0>> >>

(***************************************************************************)
(* C2                                                                      *)
(***************************************************************************)
\* the value the Fitzpatrick-Massa equations give for element j
FMElement(j) ==
    [poly  |-> fm.C1 * 100000000 + fm.C2 * fm.x[j] * 10000000
                 + fm.C4 * (IF fm.x[j] >= 59 THEN FarUV(fm.x[j]) ELSE 0),
     drude |-> RMul(RInt(fm.C3), Drude(fm.x[j], fm.xo, fm.gamma))]

\* C2: FMpar evaluates the curve element by element with the piecewise
\* far-UV term: k[j] = C1 + C2*x[j] + C3*D(x[j]) + C4*F(x[j]) with F(x[j]) = 0
\* whenever x[j] < 5.9.
FMparIsPiecewise ==
    (nb = "FMpar" /\ pc = "done") =>
        /\ Len(k) = Len(fm.x)
        /\ \A j \in 1..Len(k) : k[j] = FMElement(j)

(***************************************************************************)
(* C3                                                                      *)
(***************************************************************************)
\* W/2 - w/2 along axis a (1: width, 2: height)
CentrePaste(a) == RSub(Half(im.extended_image[a]), Half(im.image[a]))

\* C3: getImCoord maps RA1 to -w/2 and RAf to W - w/2, Dec1 to H - h/2 and
\* Decf to -h/2; a target at the midpoint of the limits gets the paste
\* position (W/2 - w/2, H/2 - h/2).
GetImCoordIsTheLine ==
    (nb = "getImCoord" /\ pc = "done") =>
        LET w == im.image[1]
            h == im.image[2]
            W == im.extended_image[1]
            H == im.extended_image[2]
        IN  /\ im.coord_RA = im.RA1 => ImCoord[1] = Rat(-w, 2)
            /\ im.coord_RA = im.RAf => ImCoord[1] = Rat(2 * W - w, 2)
            /\ im.coord_Dec = im.Dec1 => ImCoord[2] = Rat(2 * H - h, 2)
            /\ im.coord_Dec = im.Decf => ImCoord[2] = Rat(-h, 2)
            /\ im.coord_RA = RDiv(RAdd(im.RA1, im.RAf), RInt(2))
                 => ImCoord[1] = CentrePaste(1)
            /\ im.coord_Dec = RDiv(RAdd(im.Dec1, im.Decf), RInt(2))
                 => ImCoord[2] = CentrePaste(2)

\* a 2 x 3 cutout whose target is the midpoint of the limits of a 6 x 9
\* canvas is pasted at (2, 3)
GetImCoordWitness ==
    /\ nb = "getImCoord" /\ pc = "done"
    /\ im.image = <<2, 3>> /\ im.extended_image = <<6, 9>>
    /\ im.RA1 = RInt(3) /\ im.RAf = RInt(0)
    /\ im.Dec1 = RInt(0) /\ im.Decf = RInt(3)
    /\ im.coord_RA = Rat(3, 2) /\ im.coord_Dec = Rat(3, 2)
    /\ ImCoord = << RInt(2), RInt(3) >>

TblAscendingByQmin ==
    (nb = "select" /\ pc = "done") =>
        \A j \in 1..(Len(tbl) - 1) : tbl[j].qmin <= tbl[j + 1].qmin

(***************************************************************************)
(* C7                                                                      *)
(***************************************************************************)
\* C7: tbl['TASOC'][j] or tbl['QLP'][j] is True only if the query result for
\* row j holds an observation with 'HLSP' in obs_collection and 'TASOC' or
\* 'QLP' (respectively) in provenance_name.
FlagsOnlyForHLSP ==
    (nb = "search" /\ pc \in {"loop", "done"}) =>
        \A j \in 1..Len(tbl) :
            /\ TASOC[j] => \E o \in mast[tbl[j].APOGEE] :
                               o.obs_collection = "HLSP" /\ o.provenance_name = "TASOC"
            /\ QLP[j] => \E o \in mast[tbl[j].APOGEE] :
                             o.obs_collection = "HLSP" /\ o.provenance_name = "QLP"

(***************************************************************************)
(* C6                                                                      *)
(***************************************************************************)
\* C6: for a w x w central image the expanded image has shape 3w x 3w, its
\* centre block (rows and columns w..2w-1, counted from 0) is the central
\* image and every other element is 0.
ExpandedIsCentred ==
    (nb = "mosaic" /\ pc = "done") =>
        LET w == Len(images_mbm15)
        IN  /\ Len(new_image) = 3 * w
            /\ \A a \in 1..(3 * w) :
                 /\ Len(new_image[a]) = 3 * w
                 /\ \A b \in 1..(3 * w) :
                      new_image[a][b] =
                          IF a \in (w + 1)..(2 * w) /\ b \in (w + 1)..(2 * w)
                          THEN images_mbm15[a - w][b - w]
                          ELSE 0

\* a 2 x 2 image that is not symmetric, expanded to 6 x 6
ExpandedWitness ==
    /\ nb = "mosaic" /\ pc = "done"
    /\ images_mbm15 = << <<1, 2>>, <<0, 1>> >>
    /\ Len(new_image) = 6
    /\ new_image[3] = <<0, 0, 1, 2, 0, 0>>
    /\ new_image[4] = <<0, 0, 0, 1, 0, 0>>

(***************************************************************************)
(* C8                                                                      *)
(***************************************************************************)
\* outside the radius of 4.5' around (ra, dec), on the tangent plane
OutsideRadius(star) ==
    (star.raMean - ra) * (star.raMean - ra)
        + (star.decMean - dec) * (star.decMean - dec) > OuterRadius * OuterRadius

InInd(j) == \E p \in 1..Len(ind) : ind[p] = j

\* C8: every row selected as an outer star lies outside a radius of 0.075
\* degrees from (ra, dec), and every catalogue row outside it is selected.
OuterStarsAreOutsideRadius ==
    (nb = "Leo I" /\ pc = "done") =>
        \A j \in 1..Len(tab) : InInd(j) <=> OutsideRadius(tab[j])

(***************************************************************************)
(* C9                                                                      *)
(***************************************************************************)
\* C9: every file name the data loading cell of Part 2 reads is a file name
\* written by the saveArray loop of Part 1.
Part2ReadsWhatPart1Wrote ==
    (nb \in {"uv", "uv solution"} /\ pc = "part 2") =>
        \A j \in 1..Len(loadtxtNames(nb)) :
            [name |-> loadtxtNames(nb)[j], by |-> "saveArray"] \in disk

(***************************************************************************)
(* C10                                                                     *)
(***************************************************************************)
\* what saveArray prints when the file holds the array as it was written
FaithfulOut(arr) == PrintedOriginal(arr) \o PrintedContent(arr)

\* C10: whenever the content read back differs from array, the outcome of
\* saveArray differs from its outcome on a faithful write.
SaveArrayDetectsMismatch ==
    (nb = "saveArray" /\ pc = "None" /\ content # array) =>
        out # FaithfulOut(array)

(***************************************************************************)
(* C11                                                                     *)
(***************************************************************************)
\* coord(p) = CRVAL + (p - CRPIX)*step along each axis
CoordRA(h, p) == RAdd(RInt(h.CRVAL1), RMul(RSub(RInt(p), h.CRPIX1), StepRA(h)))

CoordDec(h, p) ==
    RAdd(RInt(h.CRVAL2), RMul(RSub(RInt(p), h.CRPIX2), RInt(h.CDELT2)))

\* the limits of the image itself: RA1, ... in Part 1, RA1_mbm15[0], ... in Part 2
OwnLimits == IF nb = "GALEX pt1" THEN limits ELSE limits_mbm15

\* C11: RA1 and Dec1 are the coordinates of pixel 1, and RAf and Decf are
\* the coordinates of the last pixel (pixel NAXIS1, respectively NAXIS2).
LimitsArePixel1AndLastPixel ==
    (nb \in {"GALEX pt1", "GALEX pt2"} /\ pc # "header") =>
        /\ OwnLimits.RA1 = CoordRA(header, 1)
        /\ OwnLimits.Dec1 = CoordDec(header, 1)
        /\ OwnLimits.RAf = CoordRA(header, header.NAXIS1)
        /\ OwnLimits.Decf = CoordDec(header, header.NAXIS2)

(***************************************************************************)
(* C12                                                                     *)
(***************************************************************************)
\* the reference pixel is at the image centre: CRPIX = (NAXIS+1)/2
CentredHeader(h) ==
    /\ h.CRPIX1 = Rat(h.NAXIS1 + 1, 2)
    /\ h.CRPIX2 = Rat(h.NAXIS2 + 1, 2)

\* C12: for a header with the reference pixel at the image centre, the
\* limits of the expanded canvas are symmetric about (CRVAL1, CRVAL2) and
\* span 3 times the central image's own limits.
ExpandedLimitsSpanThreeTimes ==
    (nb = "GALEX pt2" /\ pc = "done" /\ CentredHeader(header)) =>
        /\ RAdd(limits.RA1, limits.RAf) = RInt(2 * header.CRVAL1)
        /\ RAdd(limits.Dec1, limits.Decf) = RInt(2 * header.CRVAL2)
        /\ RSub(limits.RAf, limits.RA1)
             = RMul(RInt(3), RSub(limits_mbm15.RAf, limits_mbm15.RA1))
        /\ RSub(limits.Decf, limits.Dec1)
             = RMul(RInt(3), RSub(limits_mbm15.Decf, limits_mbm15.Dec1))

(***************************************************************************)
(* C13                                                                     *)
(***************************************************************************)
\* C13: every evaluation of a logarithm of a flux array happens after
\* changeNaN has been applied to that array.
LogOnlyAfterChangeNaN ==
    nb = "uv pt1 cells" =>
        \A j \in 1..Len(logs) : logs[j].afterChangeNaN

OneOperationAtATime ==
    nb = "gunzip loop" =>
        /\ child = "running" => pc = "waiting"
        /\ pc \in {"os.system", "fits.open", "done", "FileNotFoundError"}
              => child = "none"
        /\ \A j \in 1..Len(hdus) : files[hdus[j] + 1] = "fits"

\* gunzip of the second file runs while the notebook waits, the first
\* file having been decompressed and opened
OneOperationWitness ==
    /\ nb = "gunzip loop"
    /\ child = "running"
    /\ pc = "waiting"
    /\ i = 1
    /\ hdus = <<0>>
    /\ files[2] = "gz"

(***************************************************************************)
(* C16                                                                     *)
(***************************************************************************)
\* C16: the FMpar with four fitted parameters returns what the FMpar with
\* six returns at xo = 4.6 and gamma = 1.0, for every x and all C1..C4.
FMparDefinitionsAgree ==
    (nb = "FMpar" /\ pc = "done") =>
        /\ fm.npar = 4 =>
             k = FMpar6(fm.x, fm.C1, fm.C2, fm.C3, fm.C4, 46, 10)
        /\ (fm.npar = 6 /\ fm.xo = 46 /\ fm.gamma = 10) =>
             k = FMpar4(fm.x, fm.C1, fm.C2, fm.C3, fm.C4)

\* the tutorial's FMpar has been called with a bump term and with x on both
\* sides of 5.9
FMparAgreeWitness ==
    /\ nb = "FMpar"
    /\ pc = "done"
    /\ fm.npar = 4
    /\ fm.C3 = 1
    /\ fm.C4 = 1
    /\ \E a, b \in 1..Len(fm.x) : fm.x[a] < 59 /\ fm.x[b] >= 59
    /\ \E j \in 1..Len(k) : k[j].drude[1] # 0

====
